---- MODULE Spec2Model ----
(***************************************************************************)
(* Model of the gRPC fan-out service of src/grpc.rs: the subscription      *)
(* endpoint (Geyser::subscribe), the coordinator (GrpcService::send_loop), *)
(* the per-subscriber bounded delivery channels, the task spawned for a    *)
(* lagged subscriber and the subscribers reading their streams.            *)
(*                                                                         *)
(* A subscribe call is identified by its call number c; the channel it     *)
(* creates is the channel c, whatever identity the call was given.         *)
(***************************************************************************)
EXTENDS Integers, Sequences, FiniteSets, TLC

\* Bounds of the model.
MaxSubscribe == 2
MaxEvents == 3
\* The number of events in the behaviours checked for liveness.
LiveMaxEvents == 2
\* config.channel_capacity: the same for every delivery channel.
ChannelCapacity == 1

Calls == 1..MaxSubscribe
EventKinds == {"Slot", "Account"}
\* The subscribe requests tried: one that does not compile, two that do.
Requests == {"bad", "slots", "all"}
NoFilter == [slots |-> FALSE, accounts |-> FALSE]

VARIABLES
    subscribe_id,    \* GrpcService.subscribe_id
    pc,              \* per call: "idle", "alloc" (identity taken), or its result
    callId,          \* per call: the identity fetch_add returned
    callReq,         \* per call: the request it carries
    new_clients,     \* the registration channel (unbounded, FIFO)
    update_channel,  \* the event ingestion channel (unbounded, FIFO)
    produced,        \* number of events the producer has sent
    regOpen,         \* new_clients_tx (held by the service) not dropped
    updOpen,         \* update_channel_tx (held by the producer) not dropped
    coord,           \* send_loop: "running" or "exited"
    clients,         \* the registry: identity -> ClientConnection
    chan,            \* per channel: the queued items
    stream,          \* per channel: receiving end "none", "open", "dropped", "ended"
    tasks,           \* per channel: the lagged task "none", "dec", "send", "done"
    gauge,           \* CONNECTIONS_TOTAL
    received,        \* history: per channel, the items its stream has yielded
    accepted,        \* history: identities in the order registrations were sent
    dispatched,      \* history: number of dispatch passes completed
    regAt,           \* history: per channel, value of dispatched when registered (-1: not yet)
    incs,            \* history: per channel, gauge increments on its account
    decs,            \* history: per channel, gauge decrements on its account
    foundFull,       \* history: channels a try_send found full
    foundClosed,     \* history: channels a try_send found closed
    lastPass,        \* history: what the latest dispatch pass did
    seen,            \* history: the events dispatched, in the order of their passes
    placed,          \* history: per channel, the events a pass placed on it
    conv_src,        \* conversion: the value handed in by the producer
    conv_msg,        \* conversion: the Message built from it
    conv_out         \* conversion: the wire payloads made from the Message

vars == <<subscribe_id, pc, callId, callReq, new_clients, update_channel, produced,
          regOpen, updOpen, coord, clients, chan, stream, tasks, gauge, received,
          accepted, dispatched, regAt, incs, decs, foundFull, foundClosed, lastPass,
          seen, placed, conv_src, conv_msg, conv_out>>

convVars == <<conv_src, conv_msg, conv_out>>

----------------------------------------------------------------------------
\* Pure helpers.

\* Filter::new: the compiled filter of a request, or a compile error.
FilterNew(req) ==
    CASE req = "slots" -> [ok |-> TRUE, filter |-> [slots |-> TRUE, accounts |-> FALSE]]
      [] req = "all"   -> [ok |-> TRUE, filter |-> [slots |-> TRUE, accounts |-> TRUE]]
      [] OTHER         -> [ok |-> FALSE, filter |-> NoFilter]

\* Filter::get_filters: the names of the filters of `filter` that match the message.
GetFilters(filter, message) ==
    (IF filter.slots /\ message.kind = "Slot" THEN {"slots"} ELSE {})
        \cup (IF filter.accounts /\ message.kind = "Account" THEN {"accounts"} ELSE {})

\* Mutant: the counter is read and not advanced.
FetchAddLoadOnly(v) == v

\* AtomicUsize::fetch_add(1): the new value of the counter (the old one is returned).
FetchAdd(v) == v + 1

\* Mutant: the newest item is taken first.
RecvNewest(q) == [item |-> q[Len(q)], rest |-> SubSeq(q, 1, Len(q) - 1)]

\* Mutant: the item is read and left in the queue.
RecvPeek(q) == [item |-> Head(q), rest |-> q]

\* UnboundedReceiver::recv on a non-empty queue: the item taken and what is left.
Recv(q) == [item |-> Head(q), rest |-> Tail(q)]

\* The SubscribeUpdate built for a message and the matched filter names.
SubscribeUpdate(filters, message) ==
    [type |-> "data", filters |-> filters, n |-> message.n, kind |-> message.kind]

LaggedError == [type |-> "lagged", filters |-> {}, n |-> 0, kind |-> "Status"]

\* Mutant: the channel takes one message more than its capacity.
TrySendOffByOne(c) ==
    IF stream[c] # "open" THEN "Closed"
    ELSE IF Len(chan[c]) > ChannelCapacity THEN "Full"
    ELSE "Ok"

\* mpsc::Sender::try_send on channel c: closed is tested before full.
TrySend(c) ==
    IF stream[c] # "open" THEN "Closed"
    ELSE IF Len(chan[c]) >= ChannelCapacity THEN "Full"
    ELSE "Ok"

\* Mutant: the send is attempted whatever the filter returned.
OutcomeNoSkip(client, message) == TrySend(client.stream_tx)

\* What the loop body of the dispatch pass does for one client.
Outcome(client, message) ==
    IF GetFilters(client.filter, message) = {} THEN "Skip" ELSE TrySend(client.stream_tx)

\* Mutant: the pass gives up sending once a send has failed.
IdsWithStopAtFailure(message, what) ==
    IF what = "Ok" /\ \E id \in DOMAIN clients :
                        Outcome(clients[id], message) \in {"Full", "Closed"}
    THEN {}
    ELSE {id \in DOMAIN clients : Outcome(clients[id], message) = what}

\* Mutant: a full channel is passed over like a filter that does not match.
IdsWithFullAsSkip(message, what) ==
    {id \in DOMAIN clients :
        LET o == Outcome(clients[id], message)
        IN (IF o = "Full" THEN "Skip" ELSE o) = what}

\* The identities the pass pushed on ids_full / ids_closed, and those it sent to.
IdsWith(message, what) ==
    {id \in DOMAIN clients : Outcome(clients[id], message) = what}

ChansOf(ids) == {clients[id].stream_tx : id \in ids}

\* The filter of the registry entry that holds the sender of channel c.
FilterOf(c) == clients[CHOOSE id \in DOMAIN clients : clients[id].stream_tx = c].filter

\* The registry holds the sender of channel c.
InRegistry(c) == \E id \in DOMAIN clients : clients[id].stream_tx = c

\* Mutant: the entries found stale are left in the registry.
RemoveNothing(registry, ids) == registry

\* HashMap::remove for every identity of ids.
Remove(registry, ids) == [id \in (DOMAIN registry) \ ids |-> registry[id]]

\* Mutant: every client is stored under the same key.
InsertFixedKey(registry, client) ==
    [id \in (DOMAIN registry) \cup {0} |-> IF id = 0 THEN client ELSE registry[id]]

\* HashMap::insert: an existing entry of the same key is overwritten.
Insert(registry, client) ==
    [id \in (DOMAIN registry) \cup {client.id} |->
        IF id = client.id THEN client ELSE registry[id]]

\* Mutant: the lagged task does not decrement the gauge.
SpawnLaggedNoDec(t, cs) == [c \in Calls |-> IF c \in cs THEN "send" ELSE t[c]]

\* tokio::spawn of the lagged task for every client removed from ids_full.
SpawnLagged(t, cs) == [c \in Calls |-> IF c \in cs THEN "dec" ELSE t[c]]

\* Mutant: the loop over ids_closed only removes the entries.
ClosedDecsNone(ids_full, ids_closed) == {}

\* Mutant: the gauge is also decremented in the loop for the lagged clients.
ClosedDecsAll(ids_full, ids_closed) == ChansOf(ids_full \cup ids_closed)

\* The channels on whose account the loop over ids_closed calls dec().
ClosedDecs(ids_full, ids_closed) == ChansOf(ids_closed)

\* A sender of channel c is alive: in the registration queue, the registry or a task.
SenderAlive(c) ==
    \/ \E i \in 1..Len(new_clients) : new_clients[i].stream_tx = c
    \/ \E id \in DOMAIN clients : clients[id].stream_tx = c
    \/ tasks[c] \in {"dec", "send"}

----------------------------------------------------------------------------
\* No conversion in progress.
NoMessage == [kind |-> "None"]

\* The service as GrpcService::create leaves it.
ServiceInit ==
    /\ subscribe_id = 0
    /\ pc = [c \in Calls |-> "idle"]
    /\ callId = [c \in Calls |-> 0]
    /\ callReq = [c \in Calls |-> "bad"]
    /\ new_clients = <<>>
    /\ update_channel = <<>>
    /\ produced = 0
    /\ regOpen = TRUE
    /\ updOpen = TRUE
    /\ coord = "running"
    /\ clients = <<>>
    /\ chan = [c \in Calls |-> <<>>]
    /\ stream = [c \in Calls |-> "none"]
    /\ tasks = [c \in Calls |-> "none"]
    /\ gauge = 0
    /\ received = [c \in Calls |-> <<>>]
    /\ accepted = <<>>
    /\ dispatched = 0
    /\ regAt = [c \in Calls |-> -1]
    /\ incs = [c \in Calls |-> 0]
    /\ decs = [c \in Calls |-> 0]
    /\ foundFull = {}
    /\ foundClosed = {}
    /\ lastPass = [message |-> [n |-> 0, kind |-> "Slot"], attempted |-> {}, skipped |-> {}, full |-> {}, closed |-> {}]
    /\ seen = <<>>
    /\ placed = [c \in Calls |-> <<>>]

Init ==
    /\ ServiceInit
    /\ conv_src = NoMessage
    /\ conv_msg = NoMessage
    /\ conv_out = <<>>

----------------------------------------------------------------------------
\* Geyser::subscribe, line 321: the identity is taken.  Calls start in the
\* order of their numbers (the numbers only name them).
SubscribeFetchAdd(c, req) ==
    /\ regOpen
    /\ pc[c] = "idle"
    /\ \A d \in Calls : d < c => pc[d] # "idle"
    /\ callId' = [callId EXCEPT ![c] = subscribe_id]
    /\ subscribe_id' = FetchAdd(subscribe_id)
    /\ callReq' = [callReq EXCEPT ![c] = req]
    /\ pc' = [pc EXCEPT ![c] = "alloc"]
    /\ UNCHANGED <<new_clients, update_channel, produced, regOpen, updOpen, coord,
                   clients, chan, stream, tasks, gauge, received, accepted, dispatched,
                   regAt, incs, decs, foundFull, foundClosed, lastPass>>
    /\ UNCHANGED <<seen, placed, convVars>>

\* Mutant: the channel is created before the filter is compiled.
SubscribeFinishChannelFirst(c) ==
    /\ pc[c] = "alloc"
    /\ LET compiled == FilterNew(callReq[c]) IN
       IF ~compiled.ok
       THEN /\ pc' = [pc EXCEPT ![c] = "invalid_argument"]
            /\ stream' = [stream EXCEPT ![c] = "dropped"]
            /\ UNCHANGED <<new_clients, accepted>>
       ELSE IF coord # "running"
       THEN /\ pc' = [pc EXCEPT ![c] = "internal"]
            /\ stream' = [stream EXCEPT ![c] = "dropped"]
            /\ UNCHANGED <<new_clients, accepted>>
       ELSE /\ pc' = [pc EXCEPT ![c] = "ok"]
            /\ stream' = [stream EXCEPT ![c] = "open"]
            /\ new_clients' = Append(new_clients,
                    [id |-> callId[c], filter |-> compiled.filter, stream_tx |-> c])
            /\ accepted' = Append(accepted, callId[c])
    /\ UNCHANGED <<subscribe_id, callId, callReq, update_channel, produced, regOpen,
                   updOpen, coord, clients, chan, tasks, gauge, received, dispatched,
                   regAt, incs, decs, foundFull, foundClosed, lastPass>>
    /\ UNCHANGED <<seen, placed, convVars>>

\* Mutant: the result of sending the registration is ignored.
SubscribeFinishIgnoreSendError(c) ==
    /\ pc[c] = "alloc"
    /\ LET compiled == FilterNew(callReq[c]) IN
       IF ~compiled.ok
       THEN /\ pc' = [pc EXCEPT ![c] = "invalid_argument"]
            /\ UNCHANGED <<new_clients, stream, accepted>>
       ELSE /\ pc' = [pc EXCEPT ![c] = "ok"]
            /\ stream' = [stream EXCEPT ![c] = "open"]
            /\ new_clients' = IF coord = "running"
                              THEN Append(new_clients,
                                  [id |-> callId[c], filter |-> compiled.filter,
                                   stream_tx |-> c])
                              ELSE new_clients
            /\ accepted' = IF coord = "running" THEN Append(accepted, callId[c])
                           ELSE accepted
    /\ UNCHANGED <<subscribe_id, callId, callReq, update_channel, produced, regOpen,
                   updOpen, coord, clients, chan, tasks, gauge, received, dispatched,
                   regAt, incs, decs, foundFull, foundClosed, lastPass>>
    /\ UNCHANGED <<seen, placed, convVars>>

\* Geyser::subscribe, lines 324-342: compile the filter, create the channel,
\* send the registration, return the stream.
SubscribeFinish(c) ==
    /\ pc[c] = "alloc"
    /\ LET compiled == FilterNew(callReq[c]) IN
       IF ~compiled.ok
       THEN /\ pc' = [pc EXCEPT ![c] = "invalid_argument"]
            /\ UNCHANGED <<new_clients, stream, accepted>>
       ELSE IF coord # "running"
       THEN \* the send fails: stream_tx and stream_rx are dropped with the call
            /\ pc' = [pc EXCEPT ![c] = "internal"]
            /\ stream' = [stream EXCEPT ![c] = "dropped"]
            /\ UNCHANGED <<new_clients, accepted>>
       ELSE /\ pc' = [pc EXCEPT ![c] = "ok"]
            /\ stream' = [stream EXCEPT ![c] = "open"]
            /\ new_clients' = Append(new_clients,
                    [id |-> callId[c], filter |-> compiled.filter, stream_tx |-> c])
            /\ accepted' = Append(accepted, callId[c])
    /\ UNCHANGED <<subscribe_id, callId, callReq, update_channel, produced, regOpen,
                   updOpen, coord, clients, chan, tasks, gauge, received, dispatched,
                   regAt, incs, decs, foundFull, foundClosed, lastPass>>
    /\ UNCHANGED <<seen, placed, convVars>>

\* The producer sends an event on update_channel_tx.
Produce(kind) ==
    /\ updOpen
    /\ produced < MaxEvents
    /\ produced' = produced + 1
    /\ update_channel' = Append(update_channel, [n |-> produced + 1, kind |-> kind])
    /\ UNCHANGED <<subscribe_id, pc, callId, callReq, new_clients, regOpen, updOpen,
                   coord, clients, chan, stream, tasks, gauge, received, accepted,
                   dispatched, regAt, incs, decs, foundFull, foundClosed, lastPass>>
    /\ UNCHANGED <<seen, placed, convVars>>

\* send_loop, lines 268-301: one event is taken and dispatched.  The entries
\* are independent of one another (each has its own channel), so the order of
\* clients.values() does not show in the result.
Dispatch ==
    /\ coord = "running"
    /\ update_channel # <<>>
    /\ LET got == Recv(update_channel)
           message == got.item
           ids_ok == IdsWith(message, "Ok")
           ids_full == IdsWith(message, "Full")
           ids_closed == IdsWith(message, "Closed")
           ids_skip == IdsWith(message, "Skip")
       IN
       /\ update_channel' = got.rest
       /\ chan' = [c \in Calls |->
            IF c \in ChansOf(ids_ok)
            THEN Append(chan[c], SubscribeUpdate(GetFilters(FilterOf(c), message), message))
            ELSE chan[c]]
       /\ clients' = Remove(Remove(clients, ids_full), ids_closed)
       /\ tasks' = SpawnLagged(tasks, ChansOf(ids_full))
       /\ gauge' = gauge - Cardinality(ClosedDecs(ids_full, ids_closed))
       /\ decs' = [c \in Calls |->
            IF c \in ClosedDecs(ids_full, ids_closed) THEN decs[c] + 1 ELSE decs[c]]
       /\ foundFull' = foundFull \cup ChansOf(ids_full)
       /\ foundClosed' = foundClosed \cup ChansOf(ids_closed)
       /\ lastPass' = [message |-> message,
                       attempted |-> ChansOf(ids_ok \cup ids_full \cup ids_closed),
                       skipped |-> ChansOf(ids_skip),
                       full |-> ChansOf(ids_full),
                       closed |-> ChansOf(ids_closed)]
    /\ dispatched' = dispatched + 1
    /\ seen' = Append(seen, Recv(update_channel).item)
    /\ placed' = [c \in Calls |->
            IF c \in ChansOf(IdsWith(Recv(update_channel).item, "Ok"))
            THEN Append(placed[c], Recv(update_channel).item) ELSE placed[c]]
    /\ UNCHANGED <<subscribe_id, pc, callId, callReq, new_clients, produced, regOpen,
                   updOpen, coord, stream, received, accepted, regAt, incs>>
    /\ UNCHANGED convVars

\* Mutant: the new client is also sent the event dispatched last.
RegisterReplay ==
    /\ coord = "running"
    /\ new_clients # <<>>
    /\ LET got == Recv(new_clients)
           client == got.item
           filters == GetFilters(client.filter, lastPass.message)
       IN
       /\ new_clients' = got.rest
       /\ clients' = Insert(clients, client)
       /\ gauge' = gauge + 1
       /\ incs' = [incs EXCEPT ![client.stream_tx] = @ + 1]
       /\ regAt' = [regAt EXCEPT ![client.stream_tx] = dispatched]
       /\ chan' = [chan EXCEPT ![client.stream_tx] =
            IF dispatched > 0 /\ filters # {} /\ TrySend(client.stream_tx) = "Ok"
            THEN Append(@, SubscribeUpdate(filters, lastPass.message)) ELSE @]
    /\ UNCHANGED <<subscribe_id, pc, callId, callReq, update_channel, produced, regOpen,
                   updOpen, coord, stream, tasks, received, accepted, dispatched,
                   decs, foundFull, foundClosed, lastPass>>
    /\ UNCHANGED <<seen, placed, convVars>>

\* send_loop, lines 302-306: one registration is taken and inserted.
Register ==
    /\ coord = "running"
    /\ new_clients # <<>>
    /\ LET got == Recv(new_clients)
           client == got.item
       IN
       /\ new_clients' = got.rest
       /\ clients' = Insert(clients, client)
       /\ gauge' = gauge + 1
       /\ incs' = [incs EXCEPT ![client.stream_tx] = @ + 1]
       /\ regAt' = [regAt EXCEPT ![client.stream_tx] = dispatched]
    /\ UNCHANGED <<subscribe_id, pc, callId, callReq, update_channel, produced, regOpen,
                   updOpen, coord, chan, stream, tasks, received, accepted, dispatched,
                   decs, foundFull, foundClosed, lastPass>>
    /\ UNCHANGED <<seen, placed, convVars>>

\* Mutant: the loop ends as soon as the event channel is closed and empty.
ExitOnUpdatesClosed ==
    /\ coord = "running"
    /\ ~updOpen /\ update_channel = <<>>
    /\ coord' = "exited"
    /\ clients' = <<>>
    /\ UNCHANGED <<subscribe_id, pc, callId, callReq, new_clients, update_channel,
                   produced, regOpen, updOpen, chan, stream, tasks, gauge, received,
                   accepted, dispatched, regAt, incs, decs, foundFull, foundClosed,
                   lastPass>>
    /\ UNCHANGED <<seen, placed, convVars>>

\* send_loop, line 307: both receivers returned None, the loop breaks and the
\* registry is dropped with the task.
Exit ==
    /\ coord = "running"
    /\ ~updOpen /\ update_channel = <<>>
    /\ ~regOpen /\ new_clients = <<>>
    /\ coord' = "exited"
    /\ clients' = <<>>
    /\ UNCHANGED <<subscribe_id, pc, callId, callReq, new_clients, update_channel,
                   produced, regOpen, updOpen, chan, stream, tasks, gauge, received,
                   accepted, dispatched, regAt, incs, decs, foundFull, foundClosed,
                   lastPass>>
    /\ UNCHANGED <<seen, placed, convVars>>

\* Mutant: the lagged task decrements the gauge twice.
TaskDecTwice(c) ==
    /\ tasks[c] = "dec"
    /\ gauge' = gauge - 2
    /\ decs' = [decs EXCEPT ![c] = @ + 1]
    /\ tasks' = [tasks EXCEPT ![c] = "send"]
    /\ UNCHANGED <<subscribe_id, pc, callId, callReq, new_clients, update_channel,
                   produced, regOpen, updOpen, coord, clients, chan, stream, received,
                   accepted, dispatched, regAt, incs, foundFull, foundClosed, lastPass>>
    /\ UNCHANGED <<seen, placed, convVars>>

\* The task spawned for a lagged client, line 289.
TaskDec(c) ==
    /\ tasks[c] = "dec"
    /\ gauge' = gauge - 1
    /\ decs' = [decs EXCEPT ![c] = @ + 1]
    /\ tasks' = [tasks EXCEPT ![c] = "send"]
    /\ UNCHANGED <<subscribe_id, pc, callId, callReq, new_clients, update_channel,
                   produced, regOpen, updOpen, coord, clients, chan, stream, received,
                   accepted, dispatched, regAt, incs, foundFull, foundClosed, lastPass>>
    /\ UNCHANGED <<seen, placed, convVars>>

\* Mutant: the task ends without sending the error.
TaskSendNothing(c) ==
    /\ tasks[c] = "send"
    /\ tasks' = [tasks EXCEPT ![c] = "done"]
    /\ UNCHANGED <<subscribe_id, pc, callId, callReq, new_clients, update_channel,
                   produced, regOpen, updOpen, coord, clients, chan, stream, gauge,
                   received, accepted, dispatched, regAt, incs, decs, foundFull,
                   foundClosed, lastPass>>
    /\ UNCHANGED <<seen, placed, convVars>>

\* The task spawned for a lagged client, line 291: Sender::send waits for
\* room and fails (the result is ignored) when the receiver is gone.
TaskSend(c) ==
    /\ tasks[c] = "send"
    /\ stream[c] = "open" => Len(chan[c]) < ChannelCapacity
    /\ chan' = [chan EXCEPT ![c] = IF stream[c] = "open" THEN Append(@, LaggedError) ELSE @]
    /\ tasks' = [tasks EXCEPT ![c] = "done"]
    /\ UNCHANGED <<subscribe_id, pc, callId, callReq, new_clients, update_channel,
                   produced, regOpen, updOpen, coord, clients, stream, gauge, received,
                   accepted, dispatched, regAt, incs, decs, foundFull, foundClosed,
                   lastPass>>
    /\ UNCHANGED <<seen, placed, convVars>>

\* The subscriber polls its ReceiverStream: the next item, or the end of the
\* stream once the channel is empty and every sender is gone.
Read(c) ==
    /\ stream[c] = "open"
    /\ IF chan[c] # <<>>
       THEN /\ received' = [received EXCEPT ![c] = Append(@, Head(chan[c]))]
            /\ chan' = [chan EXCEPT ![c] = Tail(@)]
            /\ UNCHANGED stream
       ELSE /\ ~SenderAlive(c)
            /\ stream' = [stream EXCEPT ![c] = "ended"]
            /\ UNCHANGED <<received, chan>>
    /\ UNCHANGED <<subscribe_id, pc, callId, callReq, new_clients, update_channel,
                   produced, regOpen, updOpen, coord, clients, tasks, gauge, accepted,
                   dispatched, regAt, incs, decs, foundFull, foundClosed, lastPass>>
    /\ UNCHANGED <<seen, placed, convVars>>

\* The subscriber disconnects: the ReceiverStream is dropped, which closes the
\* channel and discards what is queued.
DropStream(c) ==
    /\ stream[c] = "open"
    /\ stream' = [stream EXCEPT ![c] = "dropped"]
    /\ chan' = [chan EXCEPT ![c] = <<>>]
    /\ UNCHANGED <<subscribe_id, pc, callId, callReq, new_clients, update_channel,
                   produced, regOpen, updOpen, coord, clients, tasks, gauge, received,
                   accepted, dispatched, regAt, incs, decs, foundFull, foundClosed,
                   lastPass>>
    /\ UNCHANGED <<seen, placed, convVars>>

\* The producer drops update_channel_tx.
CloseUpdates ==
    /\ updOpen
    /\ updOpen' = FALSE
    /\ UNCHANGED <<subscribe_id, pc, callId, callReq, new_clients, update_channel,
                   produced, regOpen, coord, clients, chan, stream, tasks, gauge,
                   received, accepted, dispatched, regAt, incs, decs, foundFull,
                   foundClosed, lastPass>>
    /\ UNCHANGED <<seen, placed, convVars>>

\* The server is shut down and the service, with new_clients_tx, is dropped;
\* a call in progress borrows the service.
CloseRegistrations ==
    /\ regOpen
    /\ \A c \in Calls : pc[c] # "alloc"
    /\ regOpen' = FALSE
    /\ UNCHANGED <<subscribe_id, pc, callId, callReq, new_clients, update_channel,
                   produced, updOpen, coord, clients, chan, stream, tasks, gauge,
                   received, accepted, dispatched, regAt, incs, decs, foundFull,
                   foundClosed, lastPass>>
    /\ UNCHANGED <<seen, placed, convVars>>

Next ==
    \/ \E c \in Calls, req \in Requests : SubscribeFetchAdd(c, req)
    \/ \E c \in Calls : SubscribeFinish(c)
    \/ \E kind \in EventKinds : Produce(kind)
    \/ Dispatch
    \/ Register
    \/ Exit
    \/ \E c \in Calls : TaskDec(c)
    \/ \E c \in Calls : TaskSend(c)
    \/ \E c \in Calls : Read(c)
    \/ \E c \in Calls : DropStream(c)
    \/ CloseUpdates
    \/ CloseRegistrations

Spec == Init /\ [][Next]_vars

\* The lagged tasks are run by the runtime, and a subscriber that has not
\* disconnected keeps polling its stream.
LiveNext ==
    \/ \E c \in Calls, req \in Requests : SubscribeFetchAdd(c, req)
    \/ \E c \in Calls : SubscribeFinish(c)
    \/ \E kind \in EventKinds : produced < LiveMaxEvents /\ Produce(kind)
    \/ Dispatch
    \/ Register
    \/ Exit
    \/ \E c \in Calls : TaskDec(c)
    \/ \E c \in Calls : TaskSend(c)
    \/ \E c \in Calls : Read(c)
    \/ \E c \in Calls : DropStream(c)
    \/ CloseUpdates
    \/ CloseRegistrations

LiveSpec ==
    /\ Init /\ [][LiveNext]_vars
    /\ \A c \in Calls : WF_vars(TaskDec(c)) /\ WF_vars(TaskSend(c)) /\ WF_vars(Read(c))

\* send_loop, line 273, when get_filters panics for the client f: the entries
\* of `before` were visited first (the order is the HashMap's), then the panic
\* unwinds send_loop, which has no handler: the task ends and the registry and
\* both receivers are dropped, with what they hold.
DispatchFault ==
    /\ coord = "running"
    /\ update_channel # <<>>
    /\ \E f \in DOMAIN clients : \E before \in SUBSET ((DOMAIN clients) \ {f}) :
        LET message == Recv(update_channel).item
            ids_ok == {id \in before : Outcome(clients[id], message) = "Ok"}
        IN /\ chan' = [c \in Calls |->
                IF c \in ChansOf(ids_ok)
                THEN Append(chan[c],
                            SubscribeUpdate(GetFilters(FilterOf(c), message), message))
                ELSE chan[c]]
           /\ placed' = [c \in Calls |->
                IF c \in ChansOf(ids_ok) THEN Append(placed[c], message) ELSE placed[c]]
    /\ coord' = "panicked"
    /\ clients' = <<>>
    /\ new_clients' = <<>>
    /\ update_channel' = <<>>
    /\ UNCHANGED <<subscribe_id, pc, callId, callReq, produced, regOpen, updOpen,
                   stream, tasks, gauge, received, accepted, dispatched, regAt, incs,
                   decs, foundFull, foundClosed, lastPass, seen, convVars>>

\* The service when the filter evaluator can fault.  UnboundedSender::send
\* fails once the receiver is gone, so nothing is queued then.
FaultNext ==
    \/ \E c \in Calls, req \in Requests : SubscribeFetchAdd(c, req)
    \/ \E c \in Calls : SubscribeFinish(c)
    \/ \E kind \in EventKinds : coord = "running" /\ Produce(kind)
    \/ Dispatch
    \/ DispatchFault
    \/ Register
    \/ Exit
    \/ \E c \in Calls : TaskDec(c)
    \/ \E c \in Calls : TaskSend(c)
    \/ \E c \in Calls : Read(c)
    \/ \E c \in Calls : DropStream(c)
    \/ CloseUpdates
    \/ CloseRegistrations

FaultSpec == Init /\ [][FaultNext]_vars

\* One iteration of the loop of send_loop: whichever branch of select! is ready.
CoordStep == Dispatch \/ Register \/ Exit

\* The runtime keeps polling the coordinator task while it has something to do.
CoordLiveSpec ==
    /\ Init /\ [][LiveNext]_vars
    /\ WF_vars(CoordStep)

----------------------------------------------------------------------------
\* The domain event model and its conversion to the wire form.

\* How many times one message is converted (once per matching client).
MaxConversions == 2

svcVars == <<subscribe_id, pc, callId, callReq, new_clients, update_channel, produced,
             regOpen, updOpen, coord, clients, chan, stream, tasks, gauge, received,
             accepted, dispatched, regAt, incs, decs, foundFull, foundClosed, lastPass,
             seen, placed>>

\* Sample values of the field types; the conversions do no arithmetic.
U64Values == {0, 2147483647}
I64Values == {-1, 1}
DataValues == {<<>>, <<255, 0>>}
Pubkeys == {[bytes |-> <<1, 2>>]}
Signatures == {[bytes |-> <<9>>]}

\* Option<T>: None is the empty sequence, Some(v) is <<v>>.
Option(S) == {<<>>} \cup {<<v>> : v \in S}

\* The plugin interface's SlotStatus.
SlotStatuses == {"SlotStatus::Processed", "SlotStatus::Confirmed", "SlotStatus::Rooted"}

SlotTuples ==
    [kind : {"SlotTuple"}, slot : U64Values, parent : Option(U64Values),
     status : SlotStatuses]

AccountMessages ==
    [kind : {"Account"},
     account : [pubkey : Pubkeys, lamports : U64Values, owner : Pubkeys,
                executable : BOOLEAN, rent_epoch : U64Values, data : DataValues,
                write_version : U64Values],
     slot : U64Values, is_startup : BOOLEAN]

TransactionMessages ==
    [kind : {"Transaction"},
     transaction : [signature : Signatures, is_vote : BOOLEAN,
                    transaction : {"SanitizedTransaction"},
                    meta : {"TransactionStatusMeta"}],
     slot : U64Values]

BlockMessages ==
    [kind : {"Block"}, slot : U64Values, blockhash : {"blockhash"},
     rewards : {<<>>, <<"Reward">>}, block_time : Option(I64Values),
     block_height : Option(U64Values)]

\* Mutant: Confirmed and Rooted are exchanged.
MessageSlotFromSwapped(t) ==
    [kind |-> "Slot", slot |-> t.slot, parent |-> t.parent,
     status |-> CASE t.status = "SlotStatus::Processed" -> "SubscribeUpdateSlotStatus::Processed"
                  [] t.status = "SlotStatus::Confirmed" -> "SubscribeUpdateSlotStatus::Rooted"
                  [] t.status = "SlotStatus::Rooted" -> "SubscribeUpdateSlotStatus::Confirmed"]

\* From<(u64, Option<u64>, SlotStatus)> for MessageSlot.
MessageSlotFrom(t) ==
    [kind |-> "Slot", slot |-> t.slot, parent |-> t.parent,
     status |-> CASE t.status = "SlotStatus::Processed" -> "SubscribeUpdateSlotStatus::Processed"
                  [] t.status = "SlotStatus::Confirmed" -> "SubscribeUpdateSlotStatus::Confirmed"
                  [] t.status = "SlotStatus::Rooted" -> "SubscribeUpdateSlotStatus::Rooted"]

\* `status as i32`: the discriminant of the generated enum.
StatusAsI32(status) ==
    CASE status = "SubscribeUpdateSlotStatus::Processed" -> 0
      [] status = "SubscribeUpdateSlotStatus::Confirmed" -> 1
      [] status = "SubscribeUpdateSlotStatus::Rooted" -> 2

\* The generated wire messages the optional block fields are turned into.
UnixTimestampFrom(v) == [timestamp |-> v]
BlockHeightFrom(v) == [block_height |-> v]
\* The generated conversions of the transaction, its meta and the rewards.
TransactionInto(t) == [wire |-> t]
RewardsInto(rs) == [rewards |-> rs]

\* From<&Message> for UpdateOneof.
UpdateOneofFrom(message) ==
    CASE message.kind = "Slot" ->
            [kind |-> "Slot", slot |-> message.slot, parent |-> message.parent,
             status |-> StatusAsI32(message.status)]
      [] message.kind = "Account" ->
            [kind |-> "Account",
             account |-> <<[pubkey |-> message.account.pubkey.bytes,
                            lamports |-> message.account.lamports,
                            owner |-> message.account.owner.bytes,
                            executable |-> message.account.executable,
                            rent_epoch |-> message.account.rent_epoch,
                            data |-> message.account.data,
                            write_version |-> message.account.write_version]>>,
             slot |-> message.slot, is_startup |-> message.is_startup]
      [] message.kind = "Transaction" ->
            [kind |-> "Transaction",
             transaction |-> <<[signature |-> message.transaction.signature.bytes,
                                is_vote |-> message.transaction.is_vote,
                                transaction |-> <<TransactionInto(message.transaction.transaction)>>,
                                meta |-> <<TransactionInto(message.transaction.meta)>>]>>,
             slot |-> message.slot]
      [] message.kind = "Block" ->
            [kind |-> "Block", slot |-> message.slot, blockhash |-> message.blockhash,
             rewards |-> <<RewardsInto(message.rewards)>>,
             block_time |-> IF message.block_time = <<>> THEN <<>>
                            ELSE <<UnixTimestampFrom(message.block_time[1])>>,
             block_height |-> IF message.block_height = <<>> THEN <<>>
                              ELSE <<BlockHeightFrom(message.block_height[1])>>]

\* Either the arguments of a slot notification, or a message already built.
ConvInit ==
    /\ ServiceInit
    /\ conv_out = <<>>
    /\ \/ conv_src \in SlotTuples /\ conv_msg = NoMessage
       \/ conv_src = NoMessage
            /\ conv_msg \in AccountMessages \cup TransactionMessages \cup BlockMessages

\* The plugin builds the MessageSlot from the notification's arguments.
ConvFromSlot ==
    /\ conv_src.kind = "SlotTuple"
    /\ conv_msg = NoMessage
    /\ conv_msg' = MessageSlotFrom(conv_src)
    /\ UNCHANGED <<conv_src, conv_out, svcVars>>

\* send_loop, line 276: message.into() for one matching client; the message is
\* borrowed.
ConvertWire ==
    /\ conv_msg # NoMessage
    /\ Len(conv_out) < MaxConversions
    /\ conv_out' = Append(conv_out, UpdateOneofFrom(conv_msg))
    /\ UNCHANGED <<conv_src, conv_msg, svcVars>>

ConvNext == ConvFromSlot \/ ConvertWire

ConvSpec == ConvInit /\ [][ConvNext]_vars

----------------------------------------------------------------------------
\* Everything ever placed on channel c and not discarded, oldest first.
Delivered(c) == received[c] \o chan[c]

IsData(item) == item.type = "data"

RECURSIVE Sum(_, _)
Sum(f, S) == IF S = {} THEN 0 ELSE LET x == CHOOSE y \in S : TRUE IN f[x] + Sum(f, S \ {x})

\* A step of the coordinator that completes a dispatch pass.
PassCompleted == dispatched' # dispatched

\* C1: per subscriber, the messages of two events come out of its channel in
\* the order the events were ingested.
PerSubscriberOrdering ==
    \A c \in Calls : \A i, j \in 1..Len(Delivered(c)) :
        (i < j /\ IsData(Delivered(c)[i]) /\ IsData(Delivered(c)[j]))
            => ~(Delivered(c)[i].n > Delivered(c)[j].n)

\* A subscriber has read the messages of two events.
OrderingWitness ==
    \E c \in Calls : /\ Len(received[c]) >= 2
                     /\ IsData(received[c][1]) /\ IsData(received[c][2])

\* C2: no subscriber is ever given two data messages for the same event.
AtMostOnce ==
    \A c \in Calls : \A i, j \in 1..Len(Delivered(c)) :
        (i # j /\ IsData(Delivered(c)[i]) /\ IsData(Delivered(c)[j]))
            => Delivered(c)[i].n # Delivered(c)[j].n

\* One subscriber was given an event and then evicted, and a subscriber
\* registered later was given a later event.
AtMostOnceWitness ==
    \E c, d \in Calls :
        /\ c # d /\ c \in foundFull
        /\ \E i \in 1..Len(Delivered(c)) : IsData(Delivered(c)[i])
        /\ regAt[d] > regAt[c] /\ regAt[d] > 0
        /\ \E i \in 1..Len(Delivered(d)) : IsData(Delivered(d)[i])

\* C3 as stated: when the pass that found a channel full completes, the
\* subscriber is out of the registry and the gauge has been decremented for it.
EvictedAndDecrementedAtPassEnd ==
    [][PassCompleted =>
        \A c \in lastPass'.full : ~InRegistry(c)' /\ decs'[c] = 1]_vars

\* C3 amended: a subscriber whose channel a pass found full is out of the
\* registry from the end of that pass on, and the gauge is decremented for it
\* exactly once, by the task the pass spawned: done, or still to be done.
EvictedAndDecrementPending ==
    \A c \in foundFull :
        /\ ~InRegistry(c)
        /\ tasks[c] # "none"
        /\ decs[c] + (IF tasks[c] = "dec" THEN 1 ELSE 0) = 1

\* The pass that found a channel full has completed, the coordinator is about
\* to take its next event and the task has not decremented the gauge yet.
EvictionWitness ==
    \E c \in lastPass.full :
        tasks[c] = "dec" /\ decs[c] = 0 /\ coord = "running" /\ update_channel # <<>>

\* C4: the gauge is incremented once for each subscriber registered and
\* decremented once for each subscriber removed, never twice, and never
\* decremented for a subscriber that was not registered.
GaugeAccounting ==
    /\ \A c \in Calls :
        /\ incs[c] = (IF regAt[c] >= 0 THEN 1 ELSE 0)
        /\ decs[c] <= incs[c]
        /\ c \in foundClosed => decs[c] = 1
        /\ c \in foundFull => (decs[c] = 1 \/ tasks[c] = "dec")
        /\ decs[c] = 1 => c \in foundFull \cup foundClosed
    /\ gauge = Sum(incs, Calls) - Sum(decs, Calls)

\* One subscriber was removed as lagged and one as closed, and both
\* decrements have been made.
GaugeAccountingWitness ==
    \E c, d \in Calls :
        c \in foundFull /\ d \in foundClosed /\ decs[c] = 1 /\ decs[d] = 1 /\ gauge = 0

\* C5 as stated: at the start of a dispatch pass every subscriber in the
\* registry has a delivery channel whose receiving end is not dropped.
RegistryChannelsLiveAtPassStart ==
    (coord = "running" /\ update_channel # <<>>)
        => \A id \in DOMAIN clients : stream[clients[id].stream_tx] # "dropped"

\* C5 amended: a subscriber a pass found stale (full or closed) is not in
\* the registry once that pass has completed.
StaleRemovedInSamePass ==
    [][PassCompleted =>
        \A id \in DOMAIN clients' :
            clients'[id].stream_tx \notin lastPass'.full \cup lastPass'.closed]_vars

\* A subscriber stayed in the registry through one pass, and a later pass found
\* its channel closed and removed it.
StaleRemovedWitness ==
    \E c \in lastPass.closed : ~InRegistry(c) /\ dispatched >= regAt[c] + 2

\* C6: a subscribe call whose filter does not compile returns invalid-argument
\* and creates no channel, sends no registration and changes neither the
\* registry nor the gauge.
InvalidFilterRejected ==
    [][\A c \in Calls :
        (pc[c] = "alloc" /\ pc'[c] # "alloc" /\ ~FilterNew(callReq[c]).ok)
            => /\ pc'[c] = "invalid_argument"
               /\ stream'[c] = "none"
               /\ UNCHANGED <<stream, chan, new_clients, accepted, clients, gauge>>]_vars

\* A call was rejected for its filter while another subscriber is registered.
InvalidFilterWitness ==
    \E c \in Calls : pc[c] = "invalid_argument" /\ stream[c] = "none" /\ gauge = 1

\* C7 as stated: the identities of the accepted subscriptions are strictly
\* increasing in the order their registrations were sent.
IdentitiesIncreaseInAcceptanceOrder ==
    \A i, j \in 1..Len(accepted) : i < j => accepted[i] < accepted[j]

\* C7 amended: the identities of the accepted subscriptions are pairwise
\* distinct, none is given again (each is below the counter), and they are
\* strictly increasing in the order the calls took them.
IdentitiesDistinct ==
    /\ \A i, j \in 1..Len(accepted) : i # j => accepted[i] # accepted[j]
    /\ \A i \in 1..Len(accepted) : accepted[i] < subscribe_id
    /\ \A c, d \in Calls :
        (c < d /\ pc[c] # "idle" /\ pc[d] # "idle") => callId[c] < callId[d]

\* Two overlapping calls were both accepted, the later identity first.
IdentitiesWitness ==
    Len(accepted) = 2 /\ accepted[1] > accepted[2]

\* The stream of channel c has yielded the lagged error as its last item and
\* has then ended.
EndedWithLagged(c) ==
    /\ stream[c] = "ended"
    /\ received[c] # <<>>
    /\ received[c][Len(received[c])] = LaggedError

FilterEmptinessFrame ==
    [][PassCompleted =>
        \A id \in DOMAIN clients :
            GetFilters(clients[id].filter, lastPass'.message) = {}
                => LET c == clients[id].stream_tx IN
                   /\ c \notin lastPass'.attempted
                   /\ chan'[c] = chan[c]
                   /\ id \in DOMAIN clients' /\ clients'[id] = clients[id]
                   /\ tasks'[c] = tasks[c]
                   /\ decs'[c] = decs[c] /\ incs'[c] = incs[c]]_vars

\* The latest pass skipped a subscriber whose channel was full or closed, and
\* it is still registered.
FilterEmptinessWitness ==
    /\ \E c \in lastPass.skipped :
        InRegistry(c) /\ stream[c] = "open" /\ Len(chan[c]) = ChannelCapacity
    /\ \E c \in lastPass.skipped :
        InRegistry(c) /\ stream[c] = "dropped" /\ received[c] # <<>>

\* C10: a subscriber is given only events whose dispatch pass started after
\* its registration was processed (event n is dispatched by pass n).
NoReplay ==
    \A c \in Calls : \A i \in 1..Len(Delivered(c)) :
        IsData(Delivered(c)[i]) => (regAt[c] >= 0 /\ Delivered(c)[i].n > regAt[c])

\* A subscriber registered after an event had been dispatched and was given
\* the next event.
NoReplayWitness ==
    \E c \in Calls :
        /\ regAt[c] >= 1
        /\ \E i \in 1..Len(Delivered(c)) :
            IsData(Delivered(c)[i]) /\ Delivered(c)[i].n = regAt[c] + 1

\* Both input channels are closed and hold nothing.
InputsClosedAndEmpty ==
    ~updOpen /\ update_channel = <<>> /\ ~regOpen /\ new_clients = <<>>

\* C11: the coordinator exits only when both input channels are closed and
\* empty, having dispatched every event sent and registered every accepted
\* subscriber, and once both are closed it eventually exits.
CoordinatorTermination ==
    /\ [](coord = "exited" =>
            /\ InputsClosedAndEmpty
            /\ dispatched = produced
            /\ \A c \in Calls : pc[c] = "ok" => regAt[c] >= 0)
    /\ (~updOpen /\ ~regOpen) ~> (coord = "exited")

\* The coordinator kept serving registrations after the event channel was
\* closed (a subscriber was registered after the last event), then exited.
TerminationWitness ==
    /\ coord = "exited"
    /\ produced >= 1
    /\ \E c \in Calls : regAt[c] = produced

\* C12: a pass is never held up (it can always be taken when an event is
\* queued), and in a pass every registered subscriber whose filter matches and
\* whose channel has room is given the event, whatever the state of the
\* channels of the others.
Isolation ==
    /\ []((coord = "running" /\ update_channel # <<>>) => ENABLED Dispatch)
    /\ [][PassCompleted =>
            \A id \in DOMAIN clients :
                Outcome(clients[id], lastPass'.message) = "Ok"
                    => chan'[clients[id].stream_tx] =
                         Append(chan[clients[id].stream_tx],
                                SubscribeUpdate(
                                    GetFilters(clients[id].filter, lastPass'.message),
                                    lastPass'.message))]_vars

\* The latest pass found one subscriber's channel full and gave the event to
\* another subscriber.
IsolationWitness ==
    \E c, d \in Calls :
        /\ c \in lastPass.full
        /\ d \in lastPass.attempted \ (lastPass.full \cup lastPass.closed)
        /\ chan[d] # <<>>
        /\ chan[d][Len(chan[d])].n = lastPass.message.n

\* C13: a subscribe call with a valid filter made when the coordinator is gone
\* returns an internal error, hands no stream to the caller and leaves the
\* registry, the registration channel and the gauge as they are.
RegistrationFailure ==
    [][\A c \in Calls :
        (pc[c] = "alloc" /\ pc'[c] # "alloc" /\ FilterNew(callReq[c]).ok
            /\ coord # "running")
            => /\ pc'[c] = "internal"
               /\ stream'[c] # "open"
               /\ UNCHANGED <<clients, gauge, new_clients, accepted>>]_vars

\* A call was rejected with an internal error after the coordinator had ended
\* with a subscriber registered.
RegistrationFailureWitness ==
    \E c \in Calls :
        pc[c] = "internal" /\ stream[c] = "dropped" /\ coord # "running" /\ gauge = 1

\* A step in which the evaluation of a filter faults during a pass.
FaultStep == coord = "running" /\ coord' = "panicked"

\* C14: when filter evaluation faults for one subscriber during a pass, the
\* coordinator keeps running and every other registered subscriber whose
\* filter matches and whose channel has room is given the event.
FaultConfined ==
    [][FaultStep =>
        /\ coord' = "running"
        /\ \E f \in DOMAIN clients : \A id \in (DOMAIN clients) \ {f} :
            Outcome(clients[id], Head(update_channel)) = "Ok"
                => Len(chan'[clients[id].stream_tx]) = Len(chan[clients[id].stream_tx]) + 1]_vars

Min(a, b) == IF a <= b THEN a ELSE b

\* The events matching the filter of call c among those processed after its
\* registration, in the order of the passes.
MatchingAfterReg(c) ==
    SelectSeq(SubSeq(seen, regAt[c] + 1, Len(seen)),
              LAMBDA m : GetFilters(FilterNew(callReq[c]).filter, m) # {})

\* Call c was registered, its stream is held and was never read.
NeverRead(c) == regAt[c] >= 0 /\ stream[c] = "open" /\ received[c] = <<>>

\* C15: a registered subscriber that never reads holds exactly the first
\* ChannelCapacity events matching its filter after its registration; it is
\* found full and evicted exactly when one more matching event is dispatched;
\* no later pass evaluates its filter or attempts a send to it.
SaturatedSubscriber ==
    /\ [](\A c \in Calls : NeverRead(c) =>
            LET m == MatchingAfterReg(c) IN
            /\ Len(chan[c]) = Min(Len(m), ChannelCapacity)
            /\ \A i \in 1..Len(chan[c]) : chan[c][i] = SubscribeUpdate(
                    GetFilters(FilterNew(callReq[c]).filter, m[i]), m[i])
            /\ (Len(m) > ChannelCapacity) <=> (c \in foundFull)
            /\ c \in foundFull => ~InRegistry(c))
    /\ [][PassCompleted =>
            \A c \in foundFull : c \notin (lastPass'.attempted \cup lastPass'.skipped)]_vars

\* A never-read subscriber was evicted as full and a further matching event
\* was processed after that.
SaturatedWitness ==
    \E c \in Calls :
        /\ NeverRead(c)
        /\ c \in foundFull
        /\ Len(MatchingAfterReg(c)) >= ChannelCapacity + 2

\* The sender of channel c is in the registry after the step.
InRegistryNext(c) == \E id \in DOMAIN clients' : clients'[id].stream_tx = c

\* C16: a registered subscriber whose stream was dropped stays registered,
\* with the gauge untouched, until a pass whose event matches its filter; that
\* pass removes it and decrements the gauge once on its account, spawns no
\* task for it and puts nothing on its channel, then or later.
SilentEviction ==
    /\ [][PassCompleted =>
            /\ gauge' = gauge - Cardinality(lastPass'.closed)
            /\ \A c \in lastPass'.closed :
                /\ stream[c] # "open"
                /\ InRegistry(c) /\ ~InRegistryNext(c)
                /\ decs'[c] = decs[c] + 1
                /\ tasks'[c] = tasks[c]
                /\ chan'[c] = chan[c]]_vars
    /\ [][\A c \in Calls :
            (InRegistry(c) /\ stream[c] = "dropped" /\ ~InRegistryNext(c))
                => \/ coord' = "exited"
                   \/ /\ PassCompleted
                      /\ c \in lastPass'.closed
                      /\ GetFilters(FilterOf(c), lastPass'.message) # {}]_vars
    /\ [][\A c \in Calls :
            (stream[c] = "open" /\ stream'[c] = "dropped")
                => UNCHANGED <<clients, gauge, tasks>>]_vars
    /\ [](\A c \in foundClosed : tasks[c] = "none" /\ chan[c] = <<>> /\ decs[c] = 1)

\* A subscriber stayed registered through a pass whose event its filter does
\* not match, a later pass found its channel closed and removed it, and the
\* gauge is left at one.
SilentEvictionWitness ==
    \E c \in lastPass.closed :
        /\ ~InRegistry(c)
        /\ dispatched >= regAt[c] + 2
        /\ Len(MatchingAfterReg(c)) < dispatched - regAt[c]
        /\ gauge = 1

\* A step in which the coordinator processes a registration message.
RegisterStep == incs' # incs

\* C17: a registration processed by the coordinator adds one entry under the
\* subscriber's identity, which was not a key before, leaves the other entries
\* as they are and increments the gauge; the subscribe call itself changes
\* neither the registry nor the gauge.
RegistrationStep ==
    /\ [][RegisterStep =>
            LET client == Head(new_clients) IN
            /\ client.id \notin DOMAIN clients
            /\ DOMAIN clients' = (DOMAIN clients) \cup {client.id}
            /\ Cardinality(DOMAIN clients') = Cardinality(DOMAIN clients) + 1
            /\ clients'[client.id] = client
            /\ \A id \in DOMAIN clients : clients'[id] = clients[id]
            /\ gauge' = gauge + 1]_vars
    /\ [][pc' # pc => UNCHANGED <<clients, gauge, incs>>]_vars

\* Two registrations were processed and both entries are in the registry.
RegistrationStepWitness ==
    \E c, d \in Calls :
        /\ c # d
        /\ InRegistry(c) /\ InRegistry(d)
        /\ incs[c] = 1 /\ incs[d] = 1
        /\ gauge >= 2

\* The name of a variant of the plugin interface's SlotStatus.
SlotStatusName(status) ==
    CASE status = "SlotStatus::Processed" -> "Processed"
      [] status = "SlotStatus::Confirmed" -> "Confirmed"
      [] status = "SlotStatus::Rooted" -> "Rooted"

\* The name of the wire status with the number i.
WireStatusName(i) ==
    CASE i = 0 -> "Processed" [] i = 1 -> "Confirmed" [] i = 2 -> "Rooted"

\* The payload out carries the fields of the message m.
SameFields(m, out) ==
    /\ out.kind = m.kind
    /\ m.kind = "Slot" =>
        /\ out.slot = conv_src.slot /\ m.slot = conv_src.slot
        /\ out.parent = conv_src.parent /\ m.parent = conv_src.parent
        /\ WireStatusName(out.status) = SlotStatusName(conv_src.status)
    /\ m.kind = "Account" =>
        /\ Len(out.account) = 1
        /\ out.account[1].lamports = m.account.lamports
        /\ out.account[1].rent_epoch = m.account.rent_epoch
        /\ out.account[1].write_version = m.account.write_version
        /\ out.account[1].executable = m.account.executable
        /\ out.account[1].data = m.account.data
        /\ out.account[1].pubkey = m.account.pubkey.bytes
        /\ out.account[1].owner = m.account.owner.bytes
        /\ out.slot = m.slot
        /\ out.is_startup = m.is_startup
    /\ m.kind = "Transaction" =>
        /\ out.slot = m.slot
        /\ Len(out.transaction) = 1
        /\ out.transaction[1].is_vote = m.transaction.is_vote
    /\ m.kind = "Block" =>
        /\ out.slot = m.slot
        /\ out.blockhash = m.blockhash
        /\ Len(out.block_time) = Len(m.block_time)
        /\ m.block_time # <<>> => out.block_time[1].timestamp = m.block_time[1]
        /\ Len(out.block_height) = Len(m.block_height)
        /\ m.block_height # <<>> => out.block_height[1].block_height = m.block_height[1]

\* C18: every wire payload built from a message has the message's kind and
\* carries its numeric, boolean and optional fields and the account data with
\* the same values, the slot status under the same name; converting leaves the
\* message as it is, and all payloads built from one message are equal.
WireConversion ==
    /\ [](\A i \in 1..Len(conv_out) : SameFields(conv_msg, conv_out[i]))
    /\ [](\A i, j \in 1..Len(conv_out) : conv_out[i] = conv_out[j])
    /\ [][conv_out' # conv_out => conv_msg' = conv_msg]_vars

\* A slot notification with a parent and the status Rooted was converted for
\* every matching client.
WireConversionWitness ==
    /\ Len(conv_out) >= MaxConversions
    /\ conv_src.kind = "SlotTuple"
    /\ conv_src.status = "SlotStatus::Rooted"
    /\ conv_src.parent # <<>>

\* The data messages of a sequence of channel items.
DataOf(items) == SelectSeq(items, IsData)

\* C19: what the passes placed on a subscriber's channel is a prefix of the
\* events matching its filter processed after its registration, so no matching
\* event is placed after a missed one; a subscriber that missed a matching
\* event was found full or closed and is out of the registry; what the
\* stream yields or still holds is that prefix, cut short only by a drop.
GapFreePrefix ==
    \A c \in Calls :
        LET m == IF regAt[c] >= 0 THEN MatchingAfterReg(c) ELSE <<>>
            d == DataOf(Delivered(c))
        IN /\ Len(placed[c]) <= Len(m)
           /\ \A i \in 1..Len(placed[c]) : placed[c][i] = m[i]
           /\ Len(placed[c]) < Len(m) =>
                c \in foundFull \cup foundClosed /\ ~InRegistry(c)
           /\ Len(d) <= Len(placed[c])
           /\ \A i \in 1..Len(d) : d[i].n = placed[c][i].n /\ d[i].kind = placed[c][i].kind
           /\ stream[c] # "dropped" => Len(d) = Len(placed[c])

\* A subscriber was found full at a matching event, read its channel
\* afterwards, and a further matching event was processed without being
\* placed on its channel.
GapFreeWitness ==
    \E c \in foundFull :
        /\ Len(placed[c]) >= 1
        /\ Len(received[c]) >= 1
        /\ Len(MatchingAfterReg(c)) >= Len(placed[c]) + 2

\* The lagged tasks that were spawned and have not yet decremented the gauge.
PendingDecs == {c \in Calls : tasks[c] = "dec"}

\* C20 as stated: in every state the gauge is non-negative and equals the
\* size of the registry plus the number of pending lagged decrements.
GaugeEqualsRegistryPlusPending ==
    /\ gauge >= 0
    /\ gauge = Cardinality(DOMAIN clients) + Cardinality(PendingDecs)
    /\ gauge >= Cardinality(DOMAIN clients)

\* C20 amended: the gauge is never negative nor smaller than the registry, and
\* while the coordinator runs it equals the size of the registry plus the
\* number of pending lagged decrements.
GaugeEqualsRegistryWhileRunning ==
    /\ gauge >= 0
    /\ gauge >= Cardinality(DOMAIN clients)
    /\ coord = "running" =>
        gauge = Cardinality(DOMAIN clients) + Cardinality(PendingDecs)

\* The coordinator runs with one subscriber registered and another evicted
\* as lagged whose task has not yet decremented the gauge.
GaugeRegistryWitness ==
    /\ coord = "running"
    /\ Cardinality(DOMAIN clients) >= 1
    /\ PendingDecs # {}
    /\ gauge = Cardinality(DOMAIN clients) + Cardinality(PendingDecs)
====
